---------------------------- MODULE Spec2Model ----------------------------
(***************************************************************************)
(* A model of the Live2D desktop application of src/main.py.               *)
(*                                                                         *)
(* State: the fields of Live2DOpenGLFrame (is_fallback, model, model_path, *)
(* is_initialized, and the attribute `animate`, which the class never      *)
(* defines), the fields and widgets of Live2DApp, the state of the live2d  *)
(* runtime, and the Tk state the handlers touch (the timer queue filled by *)
(* root.after, the window).  The program only ever appends to text_output  *)
(* and never reads it; the model keeps the lines the last handler appended *)
(* (written) and, of the whole content, the chat lines in order (chat).    *)
(*                                                                         *)
(* Every handler is one action.  A handler is a function from the state    *)
(* at its start (the record World) to the state at its end; an exception   *)
(* that leaves the handler is recorded in the field `raised`.  A call of   *)
(* a live2d function either succeeds or raises; the parameter `fail` of a  *)
(* handler names the live2d function that raises during that handler.      *)
(*                                                                         *)
(* initgl and redraw have no caller in src/main.py: they are the callbacks *)
(* the OpenGL widget toolkit invokes, and are modelled as operations the   *)
(* toolkit may invoke at any time while the window exists.                 *)
(***************************************************************************)
EXTENDS Naturals, Sequences, FiniteSets

\* ---------------------------------------------------------------- bounds

\* Non-blank text submissions per run of Spec.
MaxSubmits == 1

\* Non-blank text submissions per run of ChatSpec.
MaxChatSubmits == 2

\* ------------------------------------------------------------ vocabulary

\* Python's None, where a path or a return value is expected.
None == "None"

\* Live2DOpenGLFrame.model is None.
NoModel == [kind |-> "None", json |-> None, sized |-> FALSE]

\* Live2DOpenGLFrame.model after `del self.model`: the attribute is gone and
\* reading it raises AttributeError.
Deleted == [kind |-> "Deleted", json |-> None, sized |-> FALSE]

\* The object live2d.LAppModel() returns: no model file read, not resized.
NewModel == [kind |-> "LAppModel", json |-> None, sized |-> FALSE]

\* An attribute the class never assigns: hasattr(obj, name) is False.
Absent == [has |-> FALSE, val |-> 0]

\* An attribute with value v.
Attr(v) == [has |-> TRUE, val |-> v]

\* Model files the file dialog can return.
Paths == {"d1/m1", "d2/m2"}

\* os.path.basename
basename(p) == IF p = "d1/m1" THEN "m1" ELSE IF p = "d2/m2" THEN "m2" ELSE p

\* os.path.dirname
dirname(p) == IF p = "d1/m1" THEN "d1" ELSE IF p = "d2/m2" THEN "d2" ELSE ""

\* A handler's `fail` ranges over the live2d functions it can reach, and
\* "none": no call raises.
InitglFails ==
    {"none", "dispose", "init", "glewInit", "LAppModel", "LoadModelJson",
     "Resize"}
LoadFails == {"none", "LAppModel", "LoadModelJson", "Resize"}
RedrawFails == {"none", "clearBuffer", "Update", "Drag", "Draw"}
MotionFails == {"none", "StartRandomMotion"}
CleanupFails == {"none", "dispose"}

VARIABLES
    available,       \* LIVE2D_AVAILABLE and OPENGL_AVAILABLE (set together)
    is_fallback,     \* Live2DOpenGLFrame.is_fallback
    model,           \* Live2DOpenGLFrame.model: NoModel, Deleted or an LAppModel
    model_path,      \* Live2DOpenGLFrame.model_path: None or a path
    is_initialized,  \* Live2DOpenGLFrame.is_initialized
    animate,         \* Live2DOpenGLFrame.animate: Absent, Attr(0) or Attr(1)
    sdk,             \* the live2d runtime: "fresh", "inited" or "disposed"
    calls,           \* the live2d calls of the last handler, in order
    model_loaded,    \* Live2DApp.model_loaded
    status_label,    \* text of Live2DApp.status_label
    buttons,         \* state of motion_button, anim_button, info_button
    anim_text,       \* text of anim_button
    text_entry,      \* content of Live2DApp.text_entry
    written,         \* the lines the last handler appended to text_output
    chat,            \* the "You:" and "App:" lines of text_output, in order
    timers,          \* callbacks scheduled by root.after, oldest first
    dialogs,         \* modal dialogs shown by the last handler, in order
    window,          \* "open", "destroyed" (root.destroy) or "exited"
    lastOp           \* the last handler, its input (the path the file dialog
                     \* returned, what os.path.exists returned), whether an
                     \* exception left it, and what the frame method it called
                     \* returned

vars ==
    <<available, is_fallback, model, model_path, is_initialized, animate, sdk,
      calls, model_loaded, status_label, buttons, anim_text, text_entry,
      written, chat, timers, dialogs, window, lastOp>>


\* ------------------------------------------------- the state of a handler

\* The state a handler starts from.  calls, dialogs and written start empty:
\* they collect what this handler does.  raised: an exception left the handler.
\* ret: the value the last frame method returned.
World ==
    [model |-> model, model_path |-> model_path,
     is_initialized |-> is_initialized, animate |-> animate, sdk |-> sdk,
     calls |-> <<>>, model_loaded |-> model_loaded,
     status_label |-> status_label, buttons |-> buttons,
     anim_text |-> anim_text, text_entry |-> text_entry, written |-> <<>>,
     chat |-> chat, timers |-> timers, dialogs |-> <<>>, window |-> window,
     raised |-> FALSE, ret |-> None]

\* One call of the live2d function fn.  The call is logged with the state of
\* the runtime it was made in; it raises (ok = FALSE, no effect) when fn is
\* the handler's failing function.  init and dispose switch the runtime.
Sdk(w, fn, fail) ==
    [w EXCEPT
       !.calls = Append(@, [fn |-> fn, sdk |-> w.sdk, ok |-> fn # fail]),
       !.sdk = IF fn = fail THEN @
               ELSE IF fn = "init" THEN "inited"
               ELSE IF fn = "dispose" THEN "disposed"
               ELSE @]

\* Calls in a row inside one try block: they stop at the first that raises.
RECURSIVE SdkSeq(_, _, _)
SdkSeq(w, fns, fail) ==
    IF fns = <<>> THEN w
    ELSE IF Head(fns) = fail THEN Sdk(w, Head(fns), fail)
    ELSE SdkSeq(Sdk(w, Head(fns), fail), Tail(fns), fail)

\* An exception leaves the handler.
Raise(w) == [w EXCEPT !.raised = TRUE]

\* ------------------------------------------------------ Live2DOpenGLFrame

\* Live2DOpenGLFrame.__init__: the frame after construction.
FrameInit(avail) ==
    [is_fallback |-> ~avail, model |-> NoModel, model_path |-> None,
     is_initialized |-> FALSE, animate |-> Absent]

\* load_model as it would be if it did not keep the path asked for before
\* the frame is initialised.
Frame_load_model_ForgetsPath(w, path, fail) ==
    IF is_fallback THEN [w EXCEPT !.ret = "False"]
    ELSE IF ~w.is_initialized THEN [w EXCEPT !.ret = "False"]
    ELSE LET w1 == Sdk(w, "LAppModel", fail)
             w2 == Sdk([w1 EXCEPT !.model = NewModel], "LoadModelJson", fail)
             w3 == Sdk([w2 EXCEPT !.model.json = path], "Resize", fail)
         IN  IF fail = "LAppModel" THEN [w1 EXCEPT !.ret = "False"]
             ELSE IF fail = "LoadModelJson" THEN [w2 EXCEPT !.ret = "False"]
             ELSE IF fail = "Resize" THEN [w3 EXCEPT !.ret = "False"]
             ELSE [w3 EXCEPT !.model.sized = TRUE, !.model_path = path,
                             !.ret = "True"]

\* Live2DOpenGLFrame.load_model(model_path)
Frame_load_model(w, path, fail) ==
    IF is_fallback THEN [w EXCEPT !.ret = "False"]
    ELSE IF ~w.is_initialized
    THEN [w EXCEPT !.model_path = path, !.ret = "False"]
    ELSE LET w1 == Sdk(w, "LAppModel", fail)
             w2 == Sdk([w1 EXCEPT !.model = NewModel], "LoadModelJson", fail)
             w3 == Sdk([w2 EXCEPT !.model.json = path], "Resize", fail)
         IN  IF fail = "LAppModel" THEN [w1 EXCEPT !.ret = "False"]
             ELSE IF fail = "LoadModelJson" THEN [w2 EXCEPT !.ret = "False"]
             ELSE IF fail = "Resize" THEN [w3 EXCEPT !.ret = "False"]
             ELSE [w3 EXCEPT !.model.sized = TRUE, !.model_path = path,
                             !.ret = "True"]

\* initgl as it would be without its guard on the fallback surface.
Frame_initgl_Unguarded(w, exists, fail) ==
    IF w.model = Deleted THEN [w EXCEPT !.is_initialized = FALSE]
    ELSE LET w0 == IF w.model # NoModel THEN [w EXCEPT !.model = Deleted] ELSE w
             w1 == SdkSeq(w0, <<"dispose", "init", "glewInit">>, fail)
             w2 == [w1 EXCEPT !.is_initialized = TRUE]
         IN  IF fail \in {"dispose", "init", "glewInit"}
             THEN [w1 EXCEPT !.is_initialized = FALSE]
             ELSE IF w2.model_path # None /\ exists
             THEN [Frame_load_model(w2, w2.model_path, fail)
                     EXCEPT !.ret = None]
             ELSE w2

\* Live2DOpenGLFrame.initgl.  exists: what os.path.exists(model_path) returns.
Frame_initgl(w, exists, fail) ==
    IF ~available \/ is_fallback THEN w
    ELSE IF w.model = Deleted
    THEN \* `if self.model` raises AttributeError inside the try
         [w EXCEPT !.is_initialized = FALSE]
    ELSE LET w0 == IF w.model # NoModel THEN [w EXCEPT !.model = Deleted] ELSE w
             w1 == SdkSeq(w0, <<"dispose", "init", "glewInit">>, fail)
             w2 == [w1 EXCEPT !.is_initialized = TRUE]
         IN  IF fail \in {"dispose", "init", "glewInit"}
             THEN [w1 EXCEPT !.is_initialized = FALSE]
             ELSE IF w2.model_path # None /\ exists
             THEN [Frame_load_model(w2, w2.model_path, fail)
                     EXCEPT !.ret = None]
             ELSE w2

\* Live2DOpenGLFrame.redraw.  The mouse position only feeds Drag(x, y) and
\* its failure is caught by the inner try, so it leaves no trace here.
Frame_redraw(w, fail) ==
    IF is_fallback \/ ~w.is_initialized THEN w
    ELSE IF w.model = Deleted THEN Raise(w)
    ELSE IF w.model = NoModel THEN w
    ELSE SdkSeq(w, <<"clearBuffer", "Update", "Drag", "Draw">>, fail)

\* Live2DOpenGLFrame.start_random_motion
Frame_start_random_motion(w, fail) ==
    IF is_fallback THEN w
    ELSE IF w.model = Deleted THEN Raise(w)
    ELSE IF w.model # NoModel THEN Sdk(w, "StartRandomMotion", fail)
    ELSE w

\* cleanup as it would be if it disposed the runtime without dropping the
\* model first.
Frame_cleanup_KeepsModel(w, fail) ==
    IF is_fallback THEN w
    ELSE IF w.model = Deleted THEN Raise(w)
    ELSE LET w2 == Sdk(w, "dispose", fail)
         IN  IF ~w.is_initialized THEN w
             ELSE IF fail = "dispose" THEN Raise(w2)
             ELSE w2

\* Live2DOpenGLFrame.cleanup
Frame_cleanup(w, fail) ==
    IF is_fallback THEN w
    ELSE IF w.model = Deleted THEN Raise(w)
    ELSE LET w1 == [w EXCEPT !.model = NoModel]
             w2 == Sdk(w1, "dispose", fail)
         IN  IF ~w1.is_initialized THEN w1
             ELSE IF fail = "dispose" THEN Raise(w2)
             ELSE w2

\* ------------------------------------------------------------------ text

\* A text is a sequence of one-character strings.

\* str.lower() on one character.
lower(c) ==
    IF c = "H" THEN "h" ELSE IF c = "E" THEN "e" ELSE IF c = "L" THEN "l"
    ELSE IF c = "P" THEN "p" ELSE c

\* str.lower()
Lower(s) == [i \in DOMAIN s |-> lower(s[i])]

\* str.strip(): leading and trailing white space removed.
RECURSIVE LStrip(_)
LStrip(s) == IF s # <<>> /\ Head(s) = " " THEN LStrip(Tail(s)) ELSE s

RECURSIVE RStrip(_)
RStrip(s) ==
    IF s # <<>> /\ s[Len(s)] = " " THEN RStrip(SubSeq(s, 1, Len(s) - 1))
    ELSE s

strip(s) == RStrip(LStrip(s))

\* Python's `sub in s` on strings.
Contains(sub, s) ==
    \E i \in 0 .. Len(s) :
        i + Len(sub) <= Len(s) /\ SubSeq(s, i + 1, i + Len(sub)) = sub

\* The keywords of process_user_input.
kw_hello == <<"h", "e", "l", "l", "o">>
kw_hi == <<"h", "i">>
kw_install == <<"i", "n", "s", "t", "a", "l", "l">>
kw_dependencies ==
    <<"d", "e", "p", "e", "n", "d", "e", "n", "c", "i", "e", "s">>
kw_motion == <<"m", "o", "t", "i", "o", "n">>
kw_move == <<"m", "o", "v", "e">>
kw_model == <<"m", "o", "d", "e", "l">>
kw_help == <<"h", "e", "l", "p">>
kw_info == <<"i", "n", "f", "o">>

\* What the user types into the entry before submitting.
Texts ==
    {<<>>,
     <<" ">>,
     <<" ", "h", "i", " ">>,
     <<"t", "h", "i", "s">>,
     kw_help,
     <<"H", "e", "L", "P">>,
     kw_model \o <<" ">> \o kw_help,
     kw_info,
     kw_move \o <<" ">> \o kw_info,
     kw_install \o <<" ">> \o kw_model,
     <<"o", "k">>}

\* The texts typed where the wording of the reply is not the question: a
\* blank one, a greeting, a request for help, and one with no keyword.
FewTexts == {<<" ">>, <<" ", "h", "i", " ">>, kw_help, <<"o", "k">>}

\* One line of the output area, or one dialog: its kind and its text.
Msg(k, t) == [k |-> k, t |-> t]

\* -------------------------------------------------------------- Live2DApp

\* Live2DApp.add_output_message
add_output_message(w, m) ==
    [w EXCEPT !.written = Append(@, m),
              !.chat = IF m.k \in {"you", "app"} THEN Append(@, m) ELSE @]

\* The lines setup_text_input writes at start-up.
Welcome(avail) ==
    IF avail
    THEN <<Msg("sys", <<"welcome">>), Msg("sys", <<"deps_ok">>),
           Msg("sys", <<"load_hint">>), Msg("sys", <<"click_hint">>)>>
    ELSE <<Msg("sys", <<"welcome">>), Msg("sys", <<"deps_missing">>),
           Msg("sys", <<"text_hint">>), Msg("sys", <<"install_hint">>)>>

\* Live2DApp.show_install_help
show_install_help(w) ==
    add_output_message(
        [w EXCEPT !.dialogs = Append(@, Msg("showinfo", <<"install_help">>))],
        Msg("sys", <<"install_help_displayed">>))

\* load_model as it would be if it enabled the buttons before it looked at
\* the outcome of the load.
App_load_model_EnablesFirst(w, file_path, fail) ==
    IF ~available THEN show_install_help(w)
    ELSE IF file_path = "" THEN w
    ELSE LET w1 == [Frame_load_model(w, file_path, fail) EXCEPT
                      !.buttons = [motion |-> "normal", anim |-> "normal",
                                   info |-> "normal"]]
             name == basename(file_path)
             w2 == [w1 EXCEPT
                      !.model_loaded = TRUE,
                      !.status_label = Msg("loaded", <<name>>),
                      !.written = @ \o <<Msg("sys", <<"loaded", name>>),
                                         Msg("sys", <<"use_controls">>)>>]
         IN  IF w1.ret = "True"
             THEN IF w2.animate.has
                  THEN [w2 EXCEPT !.animate = Attr(1),
                                  !.anim_text = "Stop Animation"]
                  ELSE w2
             ELSE add_output_message(
                      [w1 EXCEPT !.dialogs =
                          Append(@, Msg("showerror", <<"load_failed">>))],
                      Msg("sys", <<"load_failed">>))

\* Live2DApp.load_model.  file_path: what the file dialog returns ("" when
\* the user cancels).
App_load_model(w, file_path, fail) ==
    IF ~available THEN show_install_help(w)
    ELSE IF file_path = "" THEN w
    ELSE LET w1 == Frame_load_model(w, file_path, fail)
             name == basename(file_path)
             w2 == [w1 EXCEPT
                      !.model_loaded = TRUE,
                      !.status_label = Msg("loaded", <<name>>),
                      !.buttons = [motion |-> "normal", anim |-> "normal",
                                   info |-> "normal"],
                      !.written = @ \o <<Msg("sys", <<"loaded", name>>),
                                         Msg("sys", <<"use_controls">>)>>]
         IN  IF w1.ret = "True"
             THEN IF w2.animate.has
                  THEN [w2 EXCEPT !.animate = Attr(1),
                                  !.anim_text = "Stop Animation"]
                  ELSE w2
             ELSE add_output_message(
                      [w1 EXCEPT !.dialogs =
                          Append(@, Msg("showerror", <<"load_failed">>))],
                      Msg("sys", <<"load_failed">>))

\* Live2DApp.trigger_motion
trigger_motion(w, fail) ==
    IF ~available THEN add_output_message(w, Msg("sys", <<"not_available">>))
    ELSE IF w.model_loaded
    THEN LET w1 == Frame_start_random_motion(w, fail)
         IN  IF w1.raised THEN w1
             ELSE add_output_message(w1, Msg("sys", <<"motion_triggered">>))
    ELSE add_output_message(w, Msg("sys", <<"no_model">>))

\* Live2DApp.toggle_animation
toggle_animation(w) ==
    IF ~available \/ ~w.model_loaded THEN w
    ELSE IF ~w.animate.has THEN w
    ELSE IF w.animate.val # 0
    THEN add_output_message(
             [w EXCEPT !.animate = Attr(0), !.anim_text = "Start Animation"],
             Msg("sys", <<"animation_paused">>))
    ELSE add_output_message(
             [w EXCEPT !.animate = Attr(1), !.anim_text = "Stop Animation"],
             Msg("sys", <<"animation_resumed">>))

\* Live2DApp.show_model_info
show_model_info(w) ==
    IF ~available THEN show_install_help(w)
    ELSE IF w.model_loaded /\ w.model_path # None
    THEN add_output_message(
             [w EXCEPT !.dialogs =
                 Append(@, Msg("showinfo", <<"model_info",
                                             basename(w.model_path),
                                             dirname(w.model_path)>>))],
             Msg("sys", <<"info_displayed", basename(w.model_path)>>))
    ELSE add_output_message(w, Msg("sys", <<"no_model_info">>))

\* Live2DApp.on_model_click
on_model_click(w, fail) ==
    IF available THEN trigger_motion(w, fail)
    ELSE add_output_message(w, Msg("sys", <<"deps_missing_click">>))

\* A branch of process_user_input: the state after its calls, and the
\* response it chose.
Branch(w, r) == [w |-> w, r |-> r]

\* process_user_input as it would be with the help branch tested before the
\* model branch.
process_user_input_HelpFirst(w, text, fail) ==
    LET tl == Lower(text)
        ready == available /\ w.model_loaded
        b == IF Contains(kw_hello, tl) \/ Contains(kw_hi, tl)
             THEN IF ready
                  THEN Branch(trigger_motion(w, fail), <<"hello_ready">>)
                  ELSE Branch(w, <<"hello_text">>)
             ELSE IF Contains(kw_install, tl) \/ Contains(kw_dependencies, tl)
             THEN Branch(show_install_help(w), <<"install_displayed">>)
             ELSE IF Contains(kw_motion, tl) \/ Contains(kw_move, tl)
             THEN IF ready
                  THEN Branch(trigger_motion(w, fail), <<"motion_ok">>)
                  ELSE IF ~available
                  THEN Branch(w, <<"motion_not_installed">>)
                  ELSE Branch(w, <<"motion_no_model">>)
             ELSE IF Contains(kw_help, tl)
             THEN IF available THEN Branch(w, <<"help_full">>)
                  ELSE Branch(w, <<"help_text_only">>)
             ELSE IF Contains(kw_model, tl)
             THEN IF ~available THEN Branch(w, <<"model_unavailable">>)
                  ELSE IF w.model_loaded THEN Branch(w, <<"model_ready">>)
                  ELSE Branch(w, <<"model_none">>)
             ELSE IF Contains(kw_info, tl)
             THEN IF ready
                  THEN Branch(show_model_info(w), <<"info_displayed">>)
                  ELSE IF ~available THEN Branch(w, <<"info_text_only">>)
                  ELSE Branch(w, <<"info_no_model">>)
             ELSE Branch(w, <<"echo">> \o text)
    IN  IF b.w.raised THEN b.w
        ELSE [b.w EXCEPT !.timers = Append(@, Msg("app", b.r))]

\* Live2DApp.process_user_input.  The response is handed to root.after and
\* written to the output area when that timer fires.
process_user_input(w, text, fail) ==
    LET tl == Lower(text)
        ready == available /\ w.model_loaded
        b == IF Contains(kw_hello, tl) \/ Contains(kw_hi, tl)
             THEN IF ready
                  THEN Branch(trigger_motion(w, fail), <<"hello_ready">>)
                  ELSE Branch(w, <<"hello_text">>)
             ELSE IF Contains(kw_install, tl) \/ Contains(kw_dependencies, tl)
             THEN Branch(show_install_help(w), <<"install_displayed">>)
             ELSE IF Contains(kw_motion, tl) \/ Contains(kw_move, tl)
             THEN IF ready
                  THEN Branch(trigger_motion(w, fail), <<"motion_ok">>)
                  ELSE IF ~available
                  THEN Branch(w, <<"motion_not_installed">>)
                  ELSE Branch(w, <<"motion_no_model">>)
             ELSE IF Contains(kw_model, tl)
             THEN IF ~available THEN Branch(w, <<"model_unavailable">>)
                  ELSE IF w.model_loaded THEN Branch(w, <<"model_ready">>)
                  ELSE Branch(w, <<"model_none">>)
             ELSE IF Contains(kw_help, tl)
             THEN IF available THEN Branch(w, <<"help_full">>)
                  ELSE Branch(w, <<"help_text_only">>)
             ELSE IF Contains(kw_info, tl)
             THEN IF ready
                  THEN Branch(show_model_info(w), <<"info_displayed">>)
                  ELSE IF ~available THEN Branch(w, <<"info_text_only">>)
                  ELSE Branch(w, <<"info_no_model">>)
             ELSE Branch(w, <<"echo">> \o text)
    IN  IF b.w.raised THEN b.w
        ELSE [b.w EXCEPT !.timers = Append(@, Msg("app", b.r))]

\* Live2DApp.on_text_submit.  typed: the content of the entry.
on_text_submit(w, typed, fail) ==
    LET text == strip(typed)
    IN  IF text # <<>>
        THEN process_user_input(
                 [add_output_message(w, Msg("you", text))
                    EXCEPT !.text_entry = <<>>],
                 text, fail)
        ELSE [w EXCEPT !.text_entry = typed]

\* Live2DApp.on_closing
on_closing(w, fail) ==
    LET w1 == Frame_cleanup(w, fail)
    IN  IF w1.raised THEN w1 ELSE [w1 EXCEPT !.window = "destroyed"]

\* main: the KeyboardInterrupt handler around root.mainloop(); the process
\* ends after it, whether cleanup returns or raises.
main_interrupt(w, fail) == [Frame_cleanup(w, fail) EXCEPT !.window = "exited"]

\* ---------------------------------------------------------- specification

\* Live2DApp.__init__: the application after construction, as the state a
\* handler would end in.
Constructed(avail) ==
    [model |-> FrameInit(avail).model,
     model_path |-> FrameInit(avail).model_path,
     is_initialized |-> FrameInit(avail).is_initialized,
     animate |-> FrameInit(avail).animate,
     sdk |-> "fresh", calls |-> <<>>, model_loaded |-> FALSE,
     status_label |-> IF avail THEN Msg("initialized", <<>>)
                      ELSE Msg("missing",
                               <<"pyopengltk", "pyautogui", "live2d">>),
     buttons |-> [motion |-> "disabled", anim |-> "disabled",
                  info |-> "disabled"],
     anim_text |-> "Start Animation", text_entry |-> <<>>,
     written |-> Welcome(avail), chat |-> <<>>, timers |-> <<>>,
     dialogs |-> <<>>, window |-> "open", raised |-> FALSE, ret |-> None]

\* The run starts in the state w, with the dependencies present or not.
StartIn(avail, op, arg, w) ==
    /\ available = avail
    /\ is_fallback = FrameInit(avail).is_fallback
    /\ model = w.model
    /\ model_path = w.model_path
    /\ is_initialized = w.is_initialized
    /\ animate = w.animate
    /\ sdk = w.sdk
    /\ calls = w.calls
    /\ model_loaded = w.model_loaded
    /\ status_label = w.status_label
    /\ buttons = w.buttons
    /\ anim_text = w.anim_text
    /\ text_entry = w.text_entry
    /\ written = w.written
    /\ chat = w.chat
    /\ timers = w.timers
    /\ dialogs = w.dialogs
    /\ window = w.window
    /\ lastOp = [op |-> op, arg |-> arg, raised |-> w.raised,
                 ret |-> w.ret]

\* The module's import block decides the dependencies; then
\* Live2DApp.__init__ runs.
Init == \E avail \in BOOLEAN : StartIn(avail, "init", "", Constructed(avail))

\* The state after the handler op, run with the input arg ("" when it has
\* none to record), ends in the state r.
Commit(op, arg, r) ==
    \E w \in {r} :
        /\ model' = w.model
        /\ model_path' = w.model_path
        /\ is_initialized' = w.is_initialized
        /\ animate' = w.animate
        /\ sdk' = w.sdk
        /\ calls' = w.calls
        /\ model_loaded' = w.model_loaded
        /\ status_label' = w.status_label
        /\ buttons' = w.buttons
        /\ anim_text' = w.anim_text
        /\ text_entry' = w.text_entry
        /\ written' = w.written
        /\ chat' = w.chat
        /\ timers' = w.timers
        /\ dialogs' = w.dialogs
        /\ window' = w.window
        /\ lastOp' = [op |-> op, arg |-> arg, raised |-> w.raised,
                      ret |-> w.ret]
        /\ UNCHANGED <<available, is_fallback>>

\* The toolkit calls initgl.
initgl ==
    /\ window = "open"
    /\ \E exists \in BOOLEAN, fail \in InitglFails :
           Commit("initgl", IF exists THEN "exists" ELSE "missing",
                  Frame_initgl(World, exists, fail))

\* The toolkit calls redraw.
redraw ==
    /\ window = "open"
    /\ \E fail \in RedrawFails :
           Commit("redraw", "", Frame_redraw(World, fail))

\* The load button: load_model, or show_install_help without live2d.
load_button ==
    /\ window = "open"
    /\ IF available
       THEN \E file_path \in Paths \cup {""}, fail \in LoadFails :
                Commit("load_model", file_path,
                       App_load_model(World, file_path, fail))
       ELSE Commit("show_install_help", "", show_install_help(World))

\* The motion button; Tk ignores clicks on a disabled button.
motion_button ==
    /\ window = "open"
    /\ buttons.motion = "normal"
    /\ \E fail \in MotionFails :
           Commit("trigger_motion", "", trigger_motion(World, fail))

\* The animation button.
anim_button ==
    /\ window = "open"
    /\ buttons.anim = "normal"
    /\ Commit("toggle_animation", "", toggle_animation(World))

\* The info button.
info_button ==
    /\ window = "open"
    /\ buttons.info = "normal"
    /\ Commit("show_model_info", "", show_model_info(World))

\* A click on the model area.
model_click ==
    /\ window = "open"
    /\ \E fail \in MotionFails :
           Commit("on_model_click", "", on_model_click(World, fail))

\* Return in the entry, or the send button.
text_submit(T, max) ==
    /\ window = "open"
    /\ Cardinality({i \in DOMAIN chat : chat[i].k = "you"}) < max
    /\ \E typed \in T, fail \in MotionFails :
           Commit("on_text_submit", "", on_text_submit(World, typed, fail))

\* The oldest timer of root.after fires: the lambda of process_user_input.
after_callback ==
    /\ window = "open"
    /\ timers # <<>>
    /\ Commit("after_callback", "",
              add_output_message([World EXCEPT !.timers = Tail(@)],
                                 Head(timers)))

\* WM_DELETE_WINDOW
close_window ==
    /\ window = "open"
    /\ \E fail \in CleanupFails :
           Commit("on_closing", "", on_closing(World, fail))

\* KeyboardInterrupt in root.mainloop()
keyboard_interrupt ==
    /\ window = "open"
    /\ \E fail \in CleanupFails :
           Commit("main_interrupt", "", main_interrupt(World, fail))

Next ==
    \/ initgl
    \/ redraw
    \/ load_button
    \/ motion_button
    \/ anim_button
    \/ info_button
    \/ model_click
    \/ text_submit(FewTexts, MaxSubmits)
    \/ after_callback
    \/ close_window
    \/ keyboard_interrupt

Spec == Init /\ [][Next]_vars

\* What a handler starts from when the previous one ended in w.
Fresh(w) ==
    [w EXCEPT !.calls = <<>>, !.written = <<>>, !.dialogs = <<>>,
              !.raised = FALSE, !.ret = None]

\* The application after the toolkit's first initgl and a load of the model
\* file p from the load button, both without a failure.
Loaded(p) ==
    App_load_model(Fresh(Frame_initgl(Constructed(TRUE), FALSE, "none")),
                   p, "none")

\* The chat alone, with every text of Texts, started after construction or
\* with a model loaded: texts are submitted, replies arrive, the window
\* closes.
InitChat ==
    \/ Init
    \/ \E p \in Paths : StartIn(TRUE, "load_model", p, Loaded(p))

NextChat ==
    \/ text_submit(Texts, MaxChatSubmits)
    \/ after_callback
    \/ close_window

ChatSpec == InitChat /\ [][NextChat]_vars

\* ----------------------------------------------------------------- claims

\* The last handler called the live2d function fn.
Called(fn) == \E i \in DOMAIN calls : calls[i].fn = fn

\* The last handler called fn and the call returned.
Did(fn) == \E i \in DOMAIN calls : calls[i].fn = fn /\ calls[i].ok

\* The frame's animation flag is set.
AnimateSet == animate.has /\ animate.val # 0

\* The frame holds a model object whose model file was read.
ModelRead == model.kind = "LAppModel" /\ model.json # None

LoadFns == {"LAppModel", "LoadModelJson", "Resize"}
DrawFns == {"clearBuffer", "Update", "Drag", "Draw"}

\* C1: the live2d functions are called in the order init, load, update/draw,
\* dispose: dispose is never called on a runtime that was never initialised,
\* a model is created and loaded only on an initialised runtime, a frame is
\* updated and drawn only for a model whose file was read, and no load,
\* draw or motion call is made on a disposed runtime.
C1_SdkCallOrder ==
    \A i \in DOMAIN calls :
        /\ calls[i].fn = "dispose" => calls[i].sdk # "fresh"
        /\ calls[i].fn \in LoadFns => calls[i].sdk = "inited"
        /\ calls[i].fn \in DrawFns => calls[i].sdk = "inited" /\ ModelRead
        /\ calls[i].fn = "StartRandomMotion" => calls[i].sdk = "inited"

\* cleanup, run by on_closing or by main's KeyboardInterrupt handler, has
\* disposed the runtime.
CleanupDisposed ==
    lastOp.op \in {"on_closing", "main_interrupt"} /\ Did("dispose")

C3_NoEscape ==
    /\ ~lastOp.raised
    /\ lastOp.op = "on_closing" => window = "destroyed"

\* The last handler was the load button's, and the load succeeded.
LoadSucceeded == lastOp.op = "load_model" /\ lastOp.ret = "True"

\* C4: the animation flag controls the redraw loop: a successful load sets
\* it, and a frame is drawn only while it is set.
C4_FlagControlsRedraw ==
    /\ LoadSucceeded => AnimateSet
    /\ Called("Draw") => AnimateSet

\* C6: without the native dependencies the fallback surface is the one in
\* use, no live2d function is called, the runtime is never touched, the
\* frame holds no model and the application never counts one as loaded.
C6_FallbackInert ==
    /\ is_fallback = ~available
    /\ is_fallback =>
           /\ calls = <<>>
           /\ sdk = "fresh"
           /\ model = NoModel
           /\ ~model_loaded

\* C6 witness: without the dependencies a text was submitted and the window
\* was closed.
C6_Witness == is_fallback /\ chat # <<>> /\ window = "destroyed"

\* The lines of kind k among lines.
OfKind(lines, k) == {i \in DOMAIN lines : lines[i].k = k}

\* C7: every submitted text has exactly one reply, written to the output
\* area or waiting in a timer, and its line is the first the submission
\* writes.
C7_OneReplyPerSubmission ==
    /\ Cardinality(OfKind(chat, "you"))
           = Cardinality(OfKind(chat, "app")) + Len(timers)
    /\ lastOp.op = "on_text_submit" /\ written # <<>> => written[1].k = "you"

\* The last handler was the load button's, and the frame's load_model
\* returned False.
LoadFailed == lastOp.op = "load_model" /\ lastOp.ret = "False"

\* C8: a failed load shows one error dialog and writes one line, calls the
\* frame's load_model once, leaves the window open, and changes none of
\* model_loaded, the status label, the buttons and the animation flag.
C8_FailedLoadChangesNothing ==
    [][LoadFailed' =>
          /\ dialogs' = <<Msg("showerror", <<"load_failed">>)>>
          /\ written' = <<Msg("sys", <<"load_failed">>)>>
          /\ Cardinality({i \in DOMAIN calls' : calls'[i].fn = "LAppModel"}) <= 1
          /\ ~lastOp'.raised
          /\ window' = "open"
          /\ model_loaded' = model_loaded
          /\ status_label' = status_label
          /\ buttons' = buttons
          /\ anim_text' = anim_text
          /\ animate' = animate]_vars

\* C8 witness: a load failed in a live2d call while a model was loaded.
C8_Witness == LoadFailed /\ model_loaded /\ Called("LAppModel")

\* C9: with a model loaded, a click on the animation button flips the flag
\* and the text of the button, and the text is "Stop Animation" exactly
\* when the flag is set.
C9_ToggleChangesLabel ==
    [][/\ (anim_text' = "Stop Animation") = (animate'.has /\ animate'.val # 0)
       /\ lastOp'.op = "toggle_animation" /\ model_loaded =>
              /\ anim_text' # anim_text
              /\ animate' # animate]_vars

\* The branches of the reply in the order the claim gives, each with its
\* keywords.
BranchKeywords ==
    <<{kw_hello, kw_hi}, {kw_install, kw_dependencies}, {kw_motion, kw_move},
      {kw_model}, {kw_help}, {kw_info}>>

\* The branch i has a keyword in the text tl.
Matches(i, tl) == \E k \in BranchKeywords[i] : Contains(k, tl)

\* The first branch with a keyword in tl; the one after the last for none.
FirstBranch(tl) ==
    IF \E i \in DOMAIN BranchKeywords : Matches(i, tl)
    THEN CHOOSE i \in DOMAIN BranchKeywords :
             Matches(i, tl) /\ \A j \in 1 .. (i - 1) : ~Matches(j, tl)
    ELSE Len(BranchKeywords) + 1

\* The branch a response belongs to.
BranchOf(r) ==
    IF r[1] \in {"hello_ready", "hello_text"} THEN 1
    ELSE IF r[1] = "install_displayed" THEN 2
    ELSE IF r[1] \in {"motion_ok", "motion_not_installed", "motion_no_model"}
    THEN 3
    ELSE IF r[1] \in {"model_unavailable", "model_ready", "model_none"} THEN 4
    ELSE IF r[1] \in {"help_full", "help_text_only"} THEN 5
    ELSE IF r[1] \in {"info_displayed", "info_text_only", "info_no_model"}
    THEN 6
    ELSE IF r[1] = "echo" THEN 7
    ELSE 0

\* The last handler was on_text_submit with a non-blank text, and returned.
Submitted ==
    lastOp.op = "on_text_submit" /\ written # <<>> /\ ~lastOp.raised

\* The text of the last submission, stripped, and the response scheduled
\* for it.
SubmittedText == written[1].t
ScheduledReply == timers[Len(timers)].t

AllCallsOk == \A i \in DOMAIN calls : calls[i].ok

\* C11: a load asked for while the frame is not initialised calls no live2d
\* function, returns False, leaves the frame's model as it is and keeps the
\* path; an initgl that succeeds keeps the path and, when the file exists,
\* loads that path and no other; an initgl that fails keeps the path.
C11_LoadAwaitsInit ==
    [][/\ lastOp'.op = "load_model" /\ lastOp'.arg # "" /\ ~is_initialized =>
              /\ calls' = <<>>
              /\ lastOp'.ret = "False"
              /\ model' = model
              /\ model_path' = lastOp'.arg
       /\ lastOp'.op = "initgl" => model_path' = model_path
       /\ lastOp'.op = "initgl" /\ is_initialized' /\ model_path # None
              /\ lastOp'.arg = "exists" =>
              /\ Called("LAppModel")'
              /\ model'.kind = "LAppModel" => model'.json \in {None, model_path}
              /\ AllCallsOk' =>
                     model' = [kind |-> "LAppModel", json |-> model_path,
                               sized |-> TRUE]
       /\ lastOp'.op = "initgl" /\ lastOp'.arg = "missing" =>
              ~Called("LAppModel")']_vars

\* C11 witness: a path asked for before the frame was initialised was loaded
\* by a later initgl.
C11_Witness ==
    /\ lastOp.op = "initgl"
    /\ Did("Resize")
    /\ ~model_loaded
    /\ model.json = model_path

\* C12: a load that fails in a live2d call on an initialised frame leaves the
\* frame's model and model_path as they were before the call.
C12_FailedLoadKeepsFrame ==
    [][LoadFailed' /\ is_initialized /\ Called("LAppModel")' =>
          /\ model' = model
          /\ model_path' = model_path]_vars

\* The frame holds a model that was loaded to the end, and model_path is the
\* path it was loaded from.
FrameLoaded ==
    /\ model.kind = "LAppModel"
    /\ model.sized
    /\ model_path # None
    /\ model.json = model_path

\* The motion, animation and info buttons are all enabled.
ButtonsEnabled ==
    buttons = [motion |-> "normal", anim |-> "normal", info |-> "normal"]

\* None of the three buttons is enabled.
ButtonsDisabled ==
    buttons = [motion |-> "disabled", anim |-> "disabled", info |-> "disabled"]

\* C13: after every step model_loaded is True exactly when the frame holds a
\* loaded model, the three buttons are enabled exactly when model_loaded is
\* True, and model_loaded never goes back to False.
C13_AppAgreesWithFrame ==
    [][/\ model_loaded' <=> FrameLoaded'
       /\ IF model_loaded' THEN ButtonsEnabled' ELSE ButtonsDisabled'
       /\ model_loaded => model_loaded']_vars

=============================================================================
